---- MODULE Spec2Model ----
(***************************************************************************)
(* Model of the log-bot relay (main.py): the per-update handler            *)
(* web_app_data, the envelope builder format_payload and the forwarder     *)
(* send_to_webhook, run by the asyncio event loop of the bot application.  *)
(***************************************************************************)
EXTENDS Integers, Sequences, FiniteSets, TLC

VARIABLES
    update,     \* update[e]: the Update object handed to the handler of event e
    pc,         \* pc[e]: where the coroutine web_app_data(update[e]) stands
    payload,    \* pc-local formatted_payload of the handler of e
    posted,     \* posted[e]: bodies handed to requests.post, in order
    forward,    \* forward[e]: what send_to_webhook saw, logged and raised
    calls,      \* calls[e]: reply_html / reply_text calls the handler made
    chat,       \* chat[e]: replies delivered to the chat (the send returned)
    escaped,    \* escaped[e]: an exception left web_app_data
    bUpdate,    \* builder harness: the Update under construction
    bOut,       \* builder harness: outcome of lines 107-113 on bUpdate
    bPc         \* builder harness: "input" or "built"

vars == <<update, pc, payload, posted, forward, calls, chat, escaped,
          bUpdate, bOut, bPc>>

hvars == <<update, pc, payload, posted, forward, calls, chat, escaped>>
bvars == <<bUpdate, bOut, bPc>>

----------------------------------------------------------------------------
(* Bounds *)

NumEvents == 2      \* inbound updates in one run
MaxLen == 3         \* longest mini-app data string fed to the builder
MaxId == 2          \* update ids and message ids range over 1..MaxId

Events == 1..NumEvents

----------------------------------------------------------------------------
(* Python values *)

\* Python None in a scalar attribute.  It is kept apart from every sample
\* value below.
None == "None"

\* Python None in place of an object (update.effective_user of a channel post).
NoObject == [none |-> TRUE]

\* The characters mini-app data is made of here: brackets and a digit, the
\* JSON the alphabet can spell, and "x", a character no JSON text starts with.
Chars == {"[", "]", "1", "x"}

RECURSIVE StringsOfLen(_)
StringsOfLen(n) ==
    IF n = 0 THEN {<<>>}
    ELSE {<<c>> \o s : c \in Chars, s \in StringsOfLen(n - 1)}

Strings(n) == UNION {StringsOfLen(k) : k \in 0..n}

----------------------------------------------------------------------------
(* json.loads *)

\* Leading run of digits of s, as (value, rest).
RECURSIVE ScanInt(_, _)
ScanInt(acc, s) ==
    IF s # <<>> /\ Head(s) = "1"
    THEN ScanInt(10 * acc + 1, Tail(s))
    ELSE [n |-> acc, rest |-> s]

\* One JSON value at the head of s: a number or an array.  Without the comma
\* in Chars an array holds at most one element.
RECURSIVE ParseValue(_)
ParseValue(s) ==
    IF s = <<>> THEN [ok |-> FALSE]
    ELSE IF Head(s) = "1" THEN
        LET r == ScanInt(0, s)
        IN  [ok |-> TRUE, value |-> [t |-> "int", v |-> r.n], rest |-> r.rest]
    ELSE IF Head(s) = "[" THEN
        LET t == Tail(s)
        IN  IF t = <<>> THEN [ok |-> FALSE]
            ELSE IF Head(t) = "]"
            THEN [ok |-> TRUE, value |-> [t |-> "list", v |-> <<>>],
                  rest |-> Tail(t)]
            ELSE LET el == ParseValue(t)
                 IN  IF ~el.ok THEN [ok |-> FALSE]
                     ELSE IF el.rest = <<>> \/ Head(el.rest) # "]"
                     THEN [ok |-> FALSE]
                     ELSE [ok |-> TRUE,
                           value |-> [t |-> "list", v |-> <<el.value>>],
                           rest |-> Tail(el.rest)]
    ELSE [ok |-> FALSE]

\* json.loads(s): the value, or JSONDecodeError when s is no JSON text or
\* text is left over after the value.
json_loads(s) ==
    LET r == ParseValue(s)
    IN  IF r.ok /\ r.rest = <<>>
        THEN [ok |-> TRUE, value |-> r.value]
        ELSE [ok |-> FALSE, error |-> "JSONDecodeError"]

----------------------------------------------------------------------------
(* datetime.isoformat *)

Digit(d) == CASE d = 0 -> "0" [] d = 1 -> "1" [] d = 2 -> "2" [] d = 3 -> "3"
              [] d = 4 -> "4" [] d = 5 -> "5" [] d = 6 -> "6" [] d = 7 -> "7"
              [] d = 8 -> "8" [] d = 9 -> "9"

Pad2(n) == Digit((n \div 10) % 10) \o Digit(n % 10)

Pad4(n) == Pad2(n \div 100) \o Pad2(n % 100)

isoformat(d) ==
    Pad4(d.year) \o "-" \o Pad2(d.month) \o "-" \o Pad2(d.day) \o "T"
    \o Pad2(d.hour) \o ":" \o Pad2(d.minute) \o ":" \o Pad2(d.second)
    \o (IF d.utc THEN "+00:00" ELSE "")

----------------------------------------------------------------------------
(* format_payload *)

\* The outcome of a call that may raise.
Return(v) == [ok |-> TRUE, value |-> v]
Raise(err) == [ok |-> FALSE, error |-> err]

\* format_payload with a dropped key: None-valued attributes of the sender
\* are left out of "from".
format_payload_omit(upd, web_app_data) ==
    LET user_info == upd.effective_user
        chat_info == upd.effective_chat
        message == upd.effective_message
        from == [id |-> user_info.id,
                 is_bot |-> user_info.is_bot,
                 first_name |-> user_info.first_name,
                 last_name |-> user_info.last_name,
                 username |-> user_info.username,
                 language_code |-> user_info.language_code]
        kept == {k \in DOMAIN from : k \in {"id", "is_bot"} \/ from[k] # None}
    IN  Return(
        [update_id |-> upd.update_id,
         message |->
            [message_id |-> message.message_id,
             from |-> [k \in kept |-> from[k]],
             chat |-> [id |-> chat_info.id,
                       first_name |-> chat_info.first_name,
                       last_name |-> chat_info.last_name,
                       username |-> chat_info.username,
                       type |-> chat_info.type],
             date |-> isoformat(message.date),
             text |-> message.text,
             attachment |-> [type |-> "OtherOrNone"],
             web_app_data |-> web_app_data]])

\* format_payload reading the wrong identifier: message_id takes update_id.
format_payload_swapped(upd, web_app_data) ==
    LET user_info == upd.effective_user
        chat_info == upd.effective_chat
        message == upd.effective_message
    IN  Return(
        [update_id |-> upd.update_id,
         message |->
            [message_id |-> upd.update_id,
             from |-> [id |-> user_info.id,
                       is_bot |-> user_info.is_bot,
                       first_name |-> user_info.first_name,
                       last_name |-> user_info.last_name,
                       username |-> user_info.username,
                       language_code |-> user_info.language_code],
             chat |-> [id |-> chat_info.id,
                       first_name |-> chat_info.first_name,
                       last_name |-> chat_info.last_name,
                       username |-> chat_info.username,
                       type |-> chat_info.type],
             date |-> isoformat(message.date),
             text |-> message.text,
             attachment |-> [type |-> "OtherOrNone"],
             web_app_data |-> web_app_data]])

\* format_payload calling a str method on an optional attribute:
\* user_info.username.lower() raises AttributeError on None.
format_payload_strict(upd, web_app_data) ==
    LET user_info == upd.effective_user
        chat_info == upd.effective_chat
        message == upd.effective_message
    IN  IF user_info.username = None THEN Raise("AttributeError")
        ELSE Return(
        [update_id |-> upd.update_id,
         message |->
            [message_id |-> message.message_id,
             from |-> [id |-> user_info.id,
                       is_bot |-> user_info.is_bot,
                       first_name |-> user_info.first_name,
                       last_name |-> user_info.last_name,
                       username |-> user_info.username,
                       language_code |-> user_info.language_code],
             chat |-> [id |-> chat_info.id,
                       first_name |-> chat_info.first_name,
                       last_name |-> chat_info.last_name,
                       username |-> chat_info.username,
                       type |-> chat_info.type],
             date |-> isoformat(message.date),
             text |-> message.text,
             attachment |-> [type |-> "OtherOrNone"],
             web_app_data |-> web_app_data]])

\* format_payload(update, web_app_data).  Reading an attribute of None raises
\* AttributeError; every other step is a plain read or a literal.
format_payload(upd, web_app_data) ==
    LET user_info == upd.effective_user
        chat_info == upd.effective_chat
        message == upd.effective_message
    IN  IF user_info = NoObject \/ chat_info = NoObject \/ message = NoObject
        THEN Raise("AttributeError")
        ELSE Return(
        [update_id |-> upd.update_id,
         message |->
            [message_id |-> message.message_id,
             from |-> [id |-> user_info.id,
                       is_bot |-> user_info.is_bot,
                       first_name |-> user_info.first_name,
                       last_name |-> user_info.last_name,
                       username |-> user_info.username,
                       language_code |-> user_info.language_code],
             chat |-> [id |-> chat_info.id,
                       first_name |-> chat_info.first_name,
                       last_name |-> chat_info.last_name,
                       username |-> chat_info.username,
                       type |-> chat_info.type],
             date |-> isoformat(message.date),
             text |-> message.text,
             attachment |-> [type |-> "OtherOrNone"],
             web_app_data |-> web_app_data]])

----------------------------------------------------------------------------
(* Update objects *)

\* A message date as the transport hands it over.
SampleDate == [year |-> 2024, month |-> 1, day |-> 1,
               hour |-> 0, minute |-> 0, second |-> 0, utc |-> TRUE]

\* The Update of a mini-app submission.  The handler is registered for
\* filters.StatusUpdate.WEB_APP_DATA, a service message of a private chat:
\* the message, its sender and its chat are there, the chat being the
\* sender's own; last_name, username, language_code and text are optional.
MkUpdate(uid, mid, txt, last, uname, lang, data) ==
    [update_id |-> uid,
     effective_user |-> [id |-> 7, is_bot |-> FALSE, first_name |-> "Ann",
                         last_name |-> last, username |-> uname,
                         language_code |-> lang],
     effective_chat |-> [id |-> 7, first_name |-> "Ann", last_name |-> last,
                         username |-> uname, type |-> "private"],
     effective_message |-> [message_id |-> mid, date |-> SampleDate,
                            text |-> txt,
                            web_app_data |-> [data |-> data]]]

\* Updates fed to the builder harness.
BuildUpdates ==
    {MkUpdate(uid, mid, txt, last, uname, lang, data) :
        uid \in 1..MaxId, mid \in 1..MaxId, txt \in {None, "hello"},
        last \in {None, "Lee"}, uname \in {None, "ann"},
        lang \in {None, "en"}, data \in Strings(MaxLen)}

\* Mini-app data of the updates fed to the handler: "x" and "[1" are no
\* JSON, "11" and "[1]" are.
HandlerData == {<<"x">>, <<"[", "1">>, <<"1", "1">>, <<"[", "1", "]">>}

\* Updates the transport delivers as event e.
HandlerUpdates(e) ==
    {MkUpdate(100 + e, e, "hello", None, "ann", "en", data) :
        data \in HandlerData}

DataOf(upd) == upd.effective_message.web_app_data.data

----------------------------------------------------------------------------
(* send_to_webhook *)

\* What requests.post can come back with: a response with a status code, or
\* an exception of the transport (status unused).
Statuses == {200, 201, 500}

Responses ==
    {[kind |-> "response", status |-> s] : s \in Statuses}
    \cup {[kind |-> "exception", status |-> 0]}

\* send_to_webhook without its try/except: the transport's exception leaves
\* the function.
send_to_webhook_uncaught(r) ==
    IF r.kind = "exception"
    THEN [seen |-> r, log |-> "none", raised |-> TRUE]
    ELSE IF r.status = 200
    THEN [seen |-> r, log |-> "info: Data successfully sent to the webhook.",
          raised |-> FALSE]
    ELSE [seen |-> r, log |-> "error: Failed to send data to webhook.",
          raised |-> FALSE]

\* send_to_webhook testing response.ok (any 2xx) in place of status 200.
send_to_webhook_2xx(r) ==
    IF r.kind = "exception"
    THEN [seen |-> r,
          log |-> "error: An error occurred while sending data to the webhook",
          raised |-> FALSE]
    ELSE IF r.status >= 200 /\ r.status < 300
    THEN [seen |-> r, log |-> "info: Data successfully sent to the webhook.",
          raised |-> FALSE]
    ELSE [seen |-> r, log |-> "error: Failed to send data to webhook.",
          raised |-> FALSE]

\* send_to_webhook from the return of requests.post on: the line it logs and
\* whether an exception leaves it.  It returns None in every case.
send_to_webhook(r) ==
    IF r.kind = "exception"
    THEN [seen |-> r,
          log |-> "error: An error occurred while sending data to the webhook",
          raised |-> FALSE]
    ELSE IF r.status = 200
    THEN [seen |-> r, log |-> "info: Data successfully sent to the webhook.",
          raised |-> FALSE]
    ELSE [seen |-> r, log |-> "error: Failed to send data to webhook.",
          raised |-> FALSE]

NotForwarded == [seen |-> [kind |-> "none", status |-> 0], log |-> "none",
                 raised |-> FALSE]

----------------------------------------------------------------------------
(* Replies *)

\* The confirmation summary built from formatted_payload.
response_message(p) ==
    [method |-> "reply_html",
     update_id |-> p.update_id,
     message_id |-> p.message.message_id,
     first_name |-> p.message.from.first_name,
     last_name |-> p.message.from.last_name,
     username |-> p.message.from.username,
     text |-> p.message.text,
     attachment_type |-> p.message.attachment.type,
     web_app_data |-> p.message.web_app_data]

failure_message ==
    [method |-> "reply_text",
     text |-> "An error occurred while processing your data. Please try again later."]

----------------------------------------------------------------------------
(* The event loop and the handler web_app_data *)

\* requests.post is a plain blocking call made from inside the coroutine:
\* between its start and its return the loop's only thread is inside it, and
\* no other coroutine of the loop is resumed.  A coroutine gives the loop
\* back only at its awaits (reply_html, reply_text).
LoopFree == \A e \in Events : pc[e] # "requests_post"

\* The except clause: the error is logged and reply_text is called.
EnterExcept(e) ==
    /\ calls' = [calls EXCEPT ![e] = Append(@, "reply_text")]
    /\ pc' = [pc EXCEPT ![e] = "reply_text"]

\* The application takes update u off the transport and schedules its
\* handler on the loop.
Dispatch(e, u) ==
    /\ pc[e] = "waiting"
    /\ LoopFree
    /\ update' = [update EXCEPT ![e] = u]
    /\ pc' = [pc EXCEPT ![e] = "scheduled"]
    /\ UNCHANGED <<payload, posted, forward, calls, chat, escaped>>

\* web_app_data that falls back to an empty payload when json.loads fails
\* and goes on to build and forward.
WebAppDataStart_lenient(e) ==
    /\ pc[e] = "scheduled"
    /\ LoopFree
    /\ LET parsed == json_loads(DataOf(update[e]))
           data == IF parsed.ok THEN parsed.value
                   ELSE [t |-> "list", v |-> <<>>]
           built == format_payload(update[e], data)
       IN  IF ~built.ok
           THEN /\ EnterExcept(e)
                /\ UNCHANGED <<payload, posted>>
           ELSE /\ payload' = [payload EXCEPT ![e] = built.value]
                /\ posted' = [posted EXCEPT ![e] = Append(@, built.value)]
                /\ pc' = [pc EXCEPT ![e] = "requests_post"]
                /\ UNCHANGED calls
    /\ UNCHANGED <<update, forward, chat, escaped>>

\* The handler from its start to the call of requests.post: json.loads,
\* format_payload, and into send_to_webhook up to the POST.  An exception of
\* json.loads or format_payload goes to the except clause.
WebAppDataStart(e) ==
    /\ pc[e] = "scheduled"
    /\ LoopFree
    /\ LET parsed == json_loads(DataOf(update[e]))
           built == IF parsed.ok THEN format_payload(update[e], parsed.value)
                    ELSE Raise(parsed.error)
       IN  IF ~built.ok
           THEN /\ EnterExcept(e)
                /\ UNCHANGED <<payload, posted>>
           ELSE /\ payload' = [payload EXCEPT ![e] = built.value]
                /\ posted' = [posted EXCEPT ![e] = Append(@, built.value)]
                /\ pc' = [pc EXCEPT ![e] = "requests_post"]
                /\ UNCHANGED calls
    /\ UNCHANGED <<update, forward, chat, escaped>>

\* requests.post returns r and the handler goes on, with a retry loop around
\* the POST: a failed attempt is sent again, up to three attempts.
PostReturns_retry(e, r) ==
    /\ pc[e] = "requests_post"
    /\ LET res == send_to_webhook(r)
           failed == r.kind = "exception" \/ r.status # 200
       IN  /\ forward' = [forward EXCEPT ![e] = res]
           /\ IF failed /\ Len(posted[e]) < 3
              THEN /\ posted' = [posted EXCEPT ![e] = Append(@, payload[e])]
                   /\ UNCHANGED <<pc, calls>>
              ELSE /\ calls' = [calls EXCEPT ![e] = Append(@, "reply_html")]
                   /\ pc' = [pc EXCEPT ![e] = "reply_html"]
                   /\ UNCHANGED posted
    /\ UNCHANGED <<update, payload, chat, escaped>>

\* requests.post returns r: send_to_webhook logs the outcome and returns, the
\* handler builds the confirmation and calls reply_html.  An exception
\* leaving send_to_webhook would go to the except clause.
PostReturns(e, r) ==
    /\ pc[e] = "requests_post"
    /\ LET res == send_to_webhook(r)
       IN  /\ forward' = [forward EXCEPT ![e] = res]
           /\ IF res.raised
              THEN EnterExcept(e)
              ELSE /\ calls' = [calls EXCEPT ![e] = Append(@, "reply_html")]
                   /\ pc' = [pc EXCEPT ![e] = "reply_html"]
    /\ UNCHANGED <<update, payload, posted, chat, escaped>>

\* The handler with the failure reply in a finally clause: it is sent after
\* a delivered confirmation as well.
ReplyHtmlReturns_finally(e, ok) ==
    /\ pc[e] = "reply_html"
    /\ LoopFree
    /\ chat' = [chat EXCEPT ![e] =
                    IF ok THEN Append(@, response_message(payload[e])) ELSE @]
    /\ EnterExcept(e)
    /\ UNCHANGED <<update, payload, posted, forward, escaped>>

\* await update.message.reply_html(...) completes: delivered and the handler
\* returns, or the call raises and the except clause takes over.
ReplyHtmlReturns(e, ok) ==
    /\ pc[e] = "reply_html"
    /\ LoopFree
    /\ IF ok
       THEN /\ chat' = [chat EXCEPT ![e] =
                            Append(@, response_message(payload[e]))]
            /\ pc' = [pc EXCEPT ![e] = "done"]
            /\ UNCHANGED calls
       ELSE /\ EnterExcept(e)
            /\ UNCHANGED chat
    /\ UNCHANGED <<update, payload, posted, forward, escaped>>

\* await update.message.reply_text(...) in the except clause completes:
\* delivered and the handler returns, or the call raises, and nothing around
\* it catches the exception.
ReplyTextReturns(e, ok) ==
    /\ pc[e] = "reply_text"
    /\ LoopFree
    /\ IF ok
       THEN /\ chat' = [chat EXCEPT ![e] = Append(@, failure_message)]
            /\ UNCHANGED escaped
       ELSE /\ escaped' = [escaped EXCEPT ![e] = TRUE]
            /\ UNCHANGED chat
    /\ pc' = [pc EXCEPT ![e] = "done"]
    /\ UNCHANGED <<update, payload, posted, forward, calls>>

----------------------------------------------------------------------------
(* Specification of the running bot *)

HandlerInit ==
    /\ update = [e \in Events |-> NoObject]
    /\ pc = [e \in Events |-> "waiting"]
    /\ payload = [e \in Events |-> NoObject]
    /\ posted = [e \in Events |-> <<>>]
    /\ forward = [e \in Events |-> NotForwarded]
    /\ calls = [e \in Events |-> <<>>]
    /\ chat = [e \in Events |-> <<>>]
    /\ escaped = [e \in Events |-> FALSE]

BuilderIdle ==
    /\ bUpdate = NoObject
    /\ bOut = NoObject
    /\ bPc = "idle"

Init == HandlerInit /\ BuilderIdle

Next ==
    \/ \E e \in Events : \E u \in HandlerUpdates(e) :
            Dispatch(e, u) /\ UNCHANGED bvars
    \/ \E e \in Events : WebAppDataStart(e) /\ UNCHANGED bvars
    \/ \E e \in Events : \E r \in Responses :
            PostReturns(e, r) /\ UNCHANGED bvars
    \/ \E e \in Events : \E ok \in BOOLEAN :
            ReplyHtmlReturns(e, ok) /\ UNCHANGED bvars
    \/ \E e \in Events : \E ok \in BOOLEAN :
            ReplyTextReturns(e, ok) /\ UNCHANGED bvars

Spec == Init /\ [][Next]_vars

----------------------------------------------------------------------------
(* Specification of the builder: lines 107-113 of the handler on one update *)

\* json.loads of the mini-app data, then format_payload of the update and
\* the parsed data when json.loads returned.
Build ==
    /\ bPc = "input"
    /\ LET parsed == json_loads(DataOf(bUpdate))
       IN  bOut' = [parsed |-> parsed,
                    called |-> parsed.ok,
                    built |-> IF parsed.ok
                              THEN format_payload(bUpdate, parsed.value)
                              ELSE NoObject]
    /\ bPc' = "built"
    /\ UNCHANGED bUpdate

InitBuild ==
    /\ HandlerInit
    /\ bUpdate \in BuildUpdates
    /\ bOut = NoObject
    /\ bPc = "input"

NextBuild == Build /\ UNCHANGED hvars

SpecBuild == InitBuild /\ [][NextBuild]_vars

----------------------------------------------------------------------------
(* Properties of the handler, checked under Spec *)

Delivered(e) == update[e] # NoObject
WellFormed(e) == Delivered(e) /\ json_loads(DataOf(update[e])).ok
Malformed(e) == Delivered(e) /\ ~json_loads(DataOf(update[e])).ok
SuccessLine == "info: Data successfully sent to the webhook."

C2_ConfirmationAfterAnyForward ==
    \A e \in Events :
        /\ forward[e] # NotForwarded =>
              /\ WellFormed(e)
              /\ calls[e] # <<>>
              /\ calls[e][1] = "reply_html"
        /\ WellFormed(e) /\ pc[e] \in {"reply_html", "reply_text", "done"} =>
              /\ forward[e] # NotForwarded
              /\ calls[e] \in {<<"reply_html">>, <<"reply_html", "reply_text">>}
              /\ pc[e] = "reply_html" => calls[e] = <<"reply_html">>
              /\ calls[e] = <<"reply_html">> /\ pc[e] = "done" =>
                    chat[e] = <<response_message(payload[e])>>

C2_Witness ==
    \E e \in Events :
        /\ forward[e].seen.kind = "exception"
        /\ pc[e] = "done"
        /\ chat[e] = <<response_message(payload[e])>>

\* C3: the handler of one event hands at most one body to requests.post;
\* exactly one, the built envelope, once the data parsed and the envelope
\* was built; a non-200 status or a transport exception is followed by no
\* further attempt.
C3_AtMostOnePost ==
    \A e \in Events :
        /\ Len(posted[e]) <= 1
        /\ payload[e] # NoObject => posted[e] = <<payload[e]>>
        /\ WellFormed(e) /\ pc[e] \notin {"waiting", "scheduled"} =>
              payload[e] # NoObject
        /\ Malformed(e) => posted[e] = <<>>

C3_Witness ==
    \E e \in Events :
        /\ forward[e].seen = [kind |-> "response", status |-> 500]
        /\ pc[e] = "done"
        /\ Len(posted[e]) = 1

\* C4: send_to_webhook logs the success line exactly when the response
\* status is 200, logs an error line for any other status and for a
\* transport exception, and lets no exception out in any of the three cases.
C4_SuccessIffStatus200 ==
    \A e \in Events : forward[e] # NotForwarded =>
        /\ ~forward[e].raised
        /\ forward[e].log = SuccessLine <=>
              (forward[e].seen.kind = "response" /\ forward[e].seen.status = 200)
        /\ forward[e].log # SuccessLine =>
              forward[e].log \in
                {"error: Failed to send data to webhook.",
                 "error: An error occurred while sending data to the webhook"}

C4_Witness ==
    \E e \in Events :
        /\ forward[e].seen = [kind |-> "response", status |-> 201]
        /\ forward[e].log = "error: Failed to send data to webhook."
        /\ ~forward[e].raised

\* C5: an exception raised while an event is processed is caught inside
\* web_app_data, the chat gets the generic failure message, and no
\* exception leaves the handler.
C5_NoExceptionLeavesHandler ==
    \A e \in Events :
        pc[e] = "done" /\ calls[e] # <<>> /\ calls[e][Len(calls[e])] = "reply_text" =>
            /\ ~escaped[e]
            /\ chat[e] = <<failure_message>>

\* A step of the handler of f other than the return of its own POST.
HandlerStep(f) ==
    \/ WebAppDataStart(f)
    \/ \E ok \in BOOLEAN : ReplyHtmlReturns(f, ok)
    \/ \E ok \in BOOLEAN : ReplyTextReturns(f, ok)

\* C6: while the handler of one event is inside requests.post, the handler
\* of any other event that is scheduled or waiting at an await can take its
\* next step.
C6_OthersRunDuringPost ==
    \A e, f \in Events :
        /\ e # f
        /\ pc[e] = "requests_post"
        /\ pc[f] \in {"scheduled", "reply_html", "reply_text"}
        => ENABLED HandlerStep(f)

----------------------------------------------------------------------------
(* Properties of the builder, checked under SpecBuild *)

Built == bPc = "built"
Envelope == bOut.built.value
Produced == Built /\ bOut.called /\ bOut.built.ok

\* C7: for an update whose data is well-formed JSON, format_payload returns
\* an envelope whose update_id, message.message_id and message.text are the
\* update's, whose message.web_app_data is the parsed data, and whose
\* message.attachment.type is "OtherOrNone".
C7_EnvelopeCarriesInput ==
    Built /\ json_loads(DataOf(bUpdate)).ok =>
        /\ bOut.called
        /\ bOut.built.ok
        /\ Envelope.update_id = bUpdate.update_id
        /\ Envelope.message.message_id = bUpdate.effective_message.message_id
        /\ Envelope.message.text = bUpdate.effective_message.text
        /\ Envelope.message.web_app_data = json_loads(DataOf(bUpdate)).value
        /\ Envelope.message.attachment.type = "OtherOrNone"

C7_Witness ==
    /\ Produced
    /\ bUpdate.update_id = 1
    /\ bUpdate.effective_message.message_id = 2
    /\ DataOf(bUpdate) = <<"[", "1", "]">>
    /\ Envelope.message.message_id = 2
    /\ Envelope.message.web_app_data =
          [t |-> "list", v |-> <<[t |-> "int", v |-> 1]>>]

\* C8: format_payload returns an envelope for every update handed to it,
\* optional attributes absent or not; the only failure ahead of forwarding
\* is json.loads raising JSONDecodeError in the caller, in which case
\* format_payload is not called.
C8_BuilderTotal ==
    Built =>
        /\ bOut.called => bOut.built.ok
        /\ bOut.called <=> json_loads(DataOf(bUpdate)).ok
        /\ ~bOut.called =>
              /\ ~bOut.parsed.ok
              /\ bOut.parsed.error = "JSONDecodeError"

C8_Witness ==
    /\ Produced
    /\ bUpdate.effective_user.last_name = None
    /\ bUpdate.effective_user.username = None
    /\ bUpdate.effective_user.language_code = None
    /\ bUpdate.effective_message.text = None

\* C9: every envelope has the same keys at every level, and an optional
\* attribute that is None in the update is None under its key in the
\* envelope.
C9_FixedKeys ==
    Produced =>
        /\ DOMAIN Envelope = {"update_id", "message"}
        /\ DOMAIN Envelope.message =
              {"message_id", "from", "chat", "date", "text", "attachment",
               "web_app_data"}
        /\ DOMAIN Envelope.message.from =
              {"id", "is_bot", "first_name", "last_name", "username",
               "language_code"}
        /\ DOMAIN Envelope.message.chat =
              {"id", "first_name", "last_name", "username", "type"}
        /\ DOMAIN Envelope.message.attachment = {"type"}
        /\ \A k \in {"last_name", "username", "language_code"} :
              bUpdate.effective_user[k] = None =>
                  Envelope.message.from[k] = None
        /\ \A k \in {"last_name", "username"} :
              bUpdate.effective_chat[k] = None =>
                  Envelope.message.chat[k] = None
        /\ bUpdate.effective_message.text = None =>
              Envelope.message.text = None

C9_Witness ==
    /\ Produced
    /\ Envelope.message.from.last_name = None
    /\ Envelope.message.chat.username = None
    /\ Envelope.message.text = None
    /\ DOMAIN Envelope.message.from =
          {"id", "is_bot", "first_name", "last_name", "username",
           "language_code"}

====
